---- MODULE Spec2Model ----
(***************************************************************************)
(* sdfgen: signed distance field generator.                                *)
(*                                                                         *)
(* The module models three parts of the program:                           *)
(*   - SdfTask and its reversed ordering (src/src/sdf_task.rs), used as    *)
(*     the element type of a std::collections::BinaryHeap (SpecHeap);      *)
(*   - the best-first search over the mipmap that the heap drives          *)
(*     (calculate_sdf, whose code is not among the source files: it is     *)
(*     modelled from the specification, section 4.4) (SpecSearch);         *)
(*   - main() of src/src/main.rs: argument handling, padding of the input  *)
(*     to a power-of-two square canvas, and the export of the distance     *)
(*     field in the chosen output type (SpecMain).                         *)
(***************************************************************************)
EXTENDS Integers, Sequences, FiniteSets

VARIABLES
    pc,           \* position of the modelled process
    debug_build,  \* TRUE: overflow checks and debug_assert! are compiled in
    output_type,  \* --type option: <<>> (absent) or <<name>>
    outcome,      \* how the run ended: "running", "ok", "usage", or a panic
    loaded,       \* the image as loaded, kept until the padded one replaces it
    img,          \* the GrayImage: [w, h, opaque, px]
    input_size,   \* side of the image handed to Mipmap::new (a U32)
    mipmap,       \* the pyramid: sequence of levels, level 0 first
    sdf,          \* the distance field as a raw vector (into_raw order)
    sat_dst,      \* saturation distance (a float)
    out_file,     \* the output file: <<>> (never created) or <<contents>>
    heap,         \* BinaryHeap<SdfTask>: its data vector
    last_op,      \* the last heap operation
    popped,       \* Option<SdfTask> returned by the last pop
    last_cmp,     \* the last direct comparison: <<>> or <<self, other, result>>
    q,            \* the query pixel of the search: <<x, y>>
    result,       \* squared distance reported by the search (-1: none)
    pops          \* number of tasks popped by the search so far

vars == <<pc, debug_build, output_type, outcome, loaded, img, input_size, mipmap, sdf,
          sat_dst, out_file, heap, last_op, popped, last_cmp, q, result, pops>>

mainVars == <<debug_build, output_type, outcome, loaded, img, input_size, sdf, sat_dst,
              out_file>>
heapVars == <<last_op, popped, last_cmp>>
searchVars == <<q, result, pops>>

(***************************************************************************)
(* Bounds of the model.                                                    *)
(***************************************************************************)
MaxHeap == 3     \* most tasks held by the heap in SpecHeap
MaxKey == 2      \* finite best_case_dst_sqr values 0..MaxKey in SpecHeap
MaxLevel == 2    \* the searched image has side 2^MaxLevel
MaxMinority == 2 \* searched images have at most this many minority pixels

(***************************************************************************)
(* DstT = f64.  A float is [k, i, n, d]: k = "fin" is the number           *)
(* i + n / d with 0 <= n < d in lowest terms, k = "huge" is a finite value *)
(* of sign i and magnitude at least 2^31, k = "inf" is the infinity of     *)
(* sign i, k = "nan" is NaN.  Rounding of finite results is not modelled:  *)
(* finite values are exact.                                                *)
(***************************************************************************)
Abs(n) == IF n < 0 THEN -n ELSE n
Sign(n) == IF n < 0 THEN -1 ELSE 1

RECURSIVE Gcd(_, _)
Gcd(a, b) == IF b = 0 THEN a ELSE Gcd(b, a % b)

Fin(n) == [k |-> "fin", i |-> n, n |-> 0, d |-> 1]
\* w + n / d for d > 0 and any n
Mixed(w, n, d) ==
    LET g == Gcd(d, n % d)
    IN  [k |-> "fin", i |-> w + (n \div d), n |-> (n % d) \div g, d |-> d \div g]
Huge(sign) == [k |-> "huge", i |-> sign, n |-> 0, d |-> 1]
Inf(sign) == [k |-> "inf", i |-> sign, n |-> 0, d |-> 1]
PosInf == Inf(1)
NaN == [k |-> "nan", i |-> 0, n |-> 0, d |-> 1]

IsFinite(a) == a.k \in {"fin", "huge"}

\* -inf < huge negative < fin < huge positive < +inf
Tier(a) == IF a.k = "fin" THEN 0 ELSE IF a.k = "huge" THEN a.i ELSE 2 * a.i

\* a < b on non-NaN floats
FLess(a, b) ==
    IF Tier(a) # Tier(b) THEN Tier(a) < Tier(b)
    ELSE /\ a.k = "fin"
         /\ a.i < b.i \/ (a.i = b.i /\ a.n * b.d < b.n * a.d)

\* f64::partial_cmp: None exactly when an operand is NaN
partial_cmp(a, b) ==
    IF a.k = "nan" \/ b.k = "nan" THEN "None"
    ELSE IF FLess(a, b) THEN "Less"
    ELSE IF FLess(b, a) THEN "Greater"
    ELSE "Equal"

(***************************************************************************)
(* SdfTask (sdf_task.rs)                                                   *)
(***************************************************************************)
SdfTask(x, y, level, dst) ==
    [x |-> x, y |-> y, level |-> level, best_case_dst_sqr |-> dst]

\* a comparison that is not reversed: the heap then pops the largest bound
cmp_not_swapped(self, other) ==
    LET r == partial_cmp(self.best_case_dst_sqr, other.best_case_dst_sqr)
    IN  IF r = "None" THEN "panic" ELSE r

\* Ord::cmp: other.partial_cmp(self).expect(..); "panic" when expect fails
cmp(self, other) ==
    LET r == partial_cmp(other.best_case_dst_sqr, self.best_case_dst_sqr)
    IN  IF r = "None" THEN "panic" ELSE r

\* PartialOrd::partial_cmp is Some(self.cmp(other)); `<=` is its default le
le(self, other) ==
    LET r == cmp(self, other)
    IN  IF r = "panic" THEN "panic"
        ELSE IF r \in {"Less", "Equal"} THEN "true" ELSE "false"

(***************************************************************************)
(* std::collections::BinaryHeap on a vector, indices from 0.  Every        *)
(* operation yields [ok, data]; ok = FALSE when a comparison panicked.     *)
(* Bind(v, F) is F(v) with v computed once (let v in F).                   *)
(***************************************************************************)
Bind(v, F(_)) == CHOOSE r \in {F(x) : x \in {v}} : TRUE

At(data, i) == data[i + 1]
Put(data, i, e) == [data EXCEPT ![i + 1] = e]

RECURSIVE sift_up(_, _, _, _)
sift_up(data, elt, start, pos) ==
    IF pos > start
    THEN Bind((pos - 1) \div 2, LAMBDA parent :
         Bind(le(elt, At(data, parent)), LAMBDA c :
            IF c = "panic" THEN [ok |-> FALSE, data |-> data]
            ELSE IF c = "true" THEN [ok |-> TRUE, data |-> Put(data, pos, elt)]
            ELSE Bind(Put(data, pos, At(data, parent)), LAMBDA moved :
                    sift_up(moved, elt, start, parent))))
    ELSE [ok |-> TRUE, data |-> Put(data, pos, elt)]

RECURSIVE sift_down_to_bottom(_, _, _, _)
sift_down_to_bottom(data, elt, start, pos) ==
    Bind(Len(data), LAMBDA end :
    Bind(2 * pos + 1, LAMBDA child :
        IF end >= 2 /\ child <= end - 2
        THEN Bind(le(At(data, child), At(data, child + 1)), LAMBDA c :
                IF c = "panic" THEN [ok |-> FALSE, data |-> data]
                ELSE Bind(IF c = "true" THEN child + 1 ELSE child, LAMBDA ch :
                     Bind(Put(data, pos, At(data, ch)), LAMBDA moved :
                        sift_down_to_bottom(moved, elt, start, ch))))
        ELSE IF child = end - 1
        THEN Bind(Put(data, pos, At(data, child)), LAMBDA moved :
                sift_up(moved, elt, start, child))
        ELSE sift_up(data, elt, start, pos)))

\* BinaryHeap::push
push(data, item) ==
    Bind(Append(data, item), LAMBDA grown :
        sift_up(grown, item, 0, Len(grown) - 1))

\* BinaryHeap::pop on a non-empty heap: [ok, data, item]
pop(data) ==
    Bind(data[Len(data)], LAMBDA last :
    Bind(SubSeq(data, 1, Len(data) - 1), LAMBDA rest :
        IF rest = <<>>
        THEN [ok |-> TRUE, data |-> rest, item |-> last]
        ELSE Bind(sift_down_to_bottom(rest, last, 0, 0), LAMBDA s :
                [ok |-> s.ok, data |-> s.data, item |-> data[1]])))

(***************************************************************************)
(* u32 values.  A u32 is [hi, lo], two 16-bit halves, so that the whole    *)
(* range 0 .. 2^32 - 1 is represented.                                     *)
(***************************************************************************)
U32Bits == 32
Half == 2 ^ 16

U32(n) == [hi |-> n \div Half, lo |-> n % Half]
\* the value as an integer, for values below 2^31
ToInt(u) == u.hi * Half + u.lo
IsSmall(u) == u.hi = 0

ULess(a, b) == a.hi < b.hi \/ (a.hi = b.hi /\ a.lo < b.lo)
max(a, b) == IF ULess(a, b) THEN b ELSE a

RECURSIVE Ones(_)
Ones(n) == IF n = 0 THEN 0 ELSE (n % 2) + Ones(n \div 2)
RECURSIVE BitLen(_)
BitLen(n) == IF n = 0 THEN 0 ELSE 1 + BitLen(n \div 2)

count_ones(u) == Ones(u.hi) + Ones(u.lo)
leading_zeros(u) ==
    IF u.hi # 0 THEN 16 - BitLen(u.hi) ELSE U32Bits - BitLen(u.lo)

\* 1_u32 << k: a shift by the full width panics when overflow checks are
\* compiled in, and otherwise shifts by k modulo the width
shl_one(k, checked) ==
    IF k >= U32Bits /\ checked THEN [ok |-> FALSE, v |-> U32(0)]
    ELSE LET kk == k % U32Bits
         IN  [ok |-> TRUE,
              v |-> IF kk < 16 THEN [hi |-> 0, lo |-> 2 ^ kk]
                    ELSE [hi |-> 2 ^ (kk - 16), lo |-> 0]]

\* a - b: an underflow panics when overflow checks are compiled in, and
\* otherwise wraps modulo 2^32
sub(a, b, checked) ==
    IF ULess(a, b) /\ checked THEN [ok |-> FALSE, v |-> U32(0)]
    ELSE LET borrow == IF a.lo < b.lo THEN 1 ELSE 0
         IN  [ok |-> TRUE,
              v |-> [hi |-> (a.hi - b.hi - borrow + Half) % Half,
                     lo |-> (a.lo - b.lo + Half) % Half]]

div2(u) == [hi |-> u.hi \div 2, lo |-> (u.lo \div 2) + (u.hi % 2) * (Half \div 2)]

\* u32::checked_sub: <<>> is None
checked_sub(a, b) == IF ULess(a, b) THEN <<>> ELSE <<sub(a, b, FALSE).v>>

(***************************************************************************)
(* Images.  A GrayImage is [w, h, opaque, px]: w and h are u32; px maps    *)
(* <<x, y>> to a luma value.  An image too large to enumerate is opaque:   *)
(* only its dimensions are modelled.                                       *)
(***************************************************************************)
NoImage == [w |-> U32(0), h |-> U32(0), opaque |-> FALSE, px |-> <<>>]

Grid(w, h) == (0..(w - 1)) \X (0..(h - 1))

(***************************************************************************)
(* SpecHeap: pushes, pops and comparisons on a heap of SdfTask.            *)
(***************************************************************************)
HeapKeys == {Fin(n) : n \in 0..MaxKey} \cup {PosInf, NaN}
HeapPositions == {<<0, 0, 0>>, <<1, 1, 1>>}
HeapTasks == {SdfTask(m[1], m[2], m[3], k) : m \in HeapPositions, k \in HeapKeys}

\* the variables of main() while it is not running
Idle ==
    /\ debug_build = FALSE /\ output_type = <<>> /\ outcome = "running"
    /\ loaded = NoImage /\ img = NoImage
    /\ input_size = U32(0) /\ sdf = <<>> /\ sat_dst = Fin(0) /\ out_file = <<>>

HeapInit ==
    /\ pc = "heap"
    /\ Idle
    /\ mipmap = <<>>
    /\ heap = <<>> /\ last_op = "new" /\ popped = <<>> /\ last_cmp = <<>>
    /\ q = <<0, 0>> /\ result = -1 /\ pops = 0

HeapPush(t) ==
    /\ pc = "heap"
    /\ Len(heap) < MaxHeap
    /\ \E r \in {push(heap, t)} :
           IF r.ok
           THEN /\ heap' = r.data
                /\ pc' = pc
           ELSE /\ heap' = heap
                /\ pc' = "panicked"
    /\ last_op' = "push"
    /\ popped' = <<>>
    /\ last_cmp' = <<>>
    /\ UNCHANGED <<mainVars, searchVars, mipmap>>

HeapPop ==
    /\ pc = "heap"
    /\ IF heap = <<>>
       THEN /\ popped' = <<>>
            /\ UNCHANGED <<heap, pc>>
       ELSE \E r \in {pop(heap)} :
                IF r.ok
                THEN /\ heap' = r.data
                     /\ popped' = <<r.item>>
                     /\ pc' = pc
                ELSE /\ heap' = heap
                     /\ popped' = <<>>
                     /\ pc' = "panicked"
    /\ last_op' = "pop"
    /\ last_cmp' = <<>>
    /\ UNCHANGED <<mainVars, searchVars, mipmap>>

\* a direct call of Ord::cmp on two tasks held by the heap
HeapCmp(i, j) ==
    /\ pc = "heap"
    /\ LET r == cmp(heap[i], heap[j])
       IN  /\ last_cmp' = <<heap[i], heap[j], r>>
           /\ pc' = IF r = "panic" THEN "panicked" ELSE pc
    /\ last_op' = "cmp"
    /\ popped' = <<>>
    /\ UNCHANGED <<mainVars, searchVars, mipmap, heap>>

HeapNext ==
    \/ \E t \in HeapTasks : HeapPush(t)
    \/ HeapPop
    \/ \E i \in 1..Len(heap), j \in 1..Len(heap) : HeapCmp(i, j)

SpecHeap == HeapInit /\ [][HeapNext]_vars

(***************************************************************************)
(* The pyramid (sdfgen::mipmap::Mipmap with bit_compressor).  A level is   *)
(* [side, cell]; a cell is "fg", "bg" or "mixed".                          *)
(***************************************************************************)
Cells(side) == (0..(side - 1)) \X (0..(side - 1))

\* the block-summarization rule: homogeneous blocks keep their colour
bit_compressor(a, b, c, d) ==
    IF a = b /\ b = c /\ c = d THEN a ELSE "mixed"

NextLevel(l) ==
    [side |-> l.side \div 2,
     cell |-> [p \in Cells(l.side \div 2) |->
                 bit_compressor(l.cell[<<2 * p[1], 2 * p[2]>>],
                                l.cell[<<2 * p[1] + 1, 2 * p[2]>>],
                                l.cell[<<2 * p[1], 2 * p[2] + 1>>],
                                l.cell[<<2 * p[1] + 1, 2 * p[2] + 1>>])]]

RECURSIVE BuildLevels(_)
BuildLevels(levels) ==
    IF levels[Len(levels)].side <= 1 THEN levels
    ELSE BuildLevels(Append(levels, NextLevel(levels[Len(levels)])))

\* Mipmap::new on a square power-of-two binary image
MipmapNew(image) == BuildLevels(<<image>>)

get_max_level(m) == Len(m) - 1

\* the summary of cell (x, y) of a level, levels counted from 0
Cell(m, level, x, y) == m[level + 1].cell[<<x, y>>]

(***************************************************************************)
(* The best-first search of calculate_sdf for one query pixel.             *)
(***************************************************************************)
Pow2(n) == 2 ^ n

AxisGap(c, lo, hi) == IF c < lo THEN lo - c ELSE IF c > hi THEN c - hi ELSE 0

\* squared distance from the query pixel to the nearest pixel of the region
LowerBoundSqr(qq, x, y, level) ==
    LET size == Pow2(level)
        dx == AxisGap(qq[1], x * size, x * size + size - 1)
        dy == AxisGap(qq[2], y * size, y * size + size - 1)
    IN  dx * dx + dy * dy

\* children of a region that are pushed at all; all four of them
ChildOffsets == <<(<<0, 0>>), (<<1, 0>>), (<<0, 1>>), (<<1, 1>>)>>

\* a subdivision that loses the last child
ChildrenDropLast(qq, t) ==
    [i \in 1..3 |->
        LET cx == 2 * t.x + ChildOffsets[i][1]
            cy == 2 * t.y + ChildOffsets[i][2]
        IN  SdfTask(cx, cy, t.level - 1,
                    Fin(LowerBoundSqr(qq, cx, cy, t.level - 1)))]

\* the four child tasks of a region, each with its own lower bound
Children(qq, t) ==
    [i \in 1..4 |->
        LET cx == 2 * t.x + ChildOffsets[i][1]
            cy == 2 * t.y + ChildOffsets[i][2]
        IN  SdfTask(cx, cy, t.level - 1,
                    Fin(LowerBoundSqr(qq, cx, cy, t.level - 1)))]

RECURSIVE PushAll(_, _)
PushAll(r, tasks) ==
    IF tasks = <<>> \/ ~r.ok THEN r
    ELSE Bind(push(r.data, Head(tasks)), LAMBDA pushed :
         Bind(Tail(tasks), LAMBDA rest : PushAll(pushed, rest)))

QueryColour == Cell(mipmap, 0, q[1], q[2])

\* the coarsest level is one cell, which contains the query pixel
Seed(m) == push(<<>>, SdfTask(0, 0, get_max_level(m), Fin(0))).data

SearchSide == Pow2(MaxLevel)
NoPixel == <<-1, -1>>
MinoritySets ==
    {{f[i] : i \in 1..MaxMinority} \ {NoPixel} :
        f \in [1..MaxMinority -> Cells(SearchSide) \cup {NoPixel}]}
Other(c) == IF c = "fg" THEN "bg" ELSE "fg"
SearchImages ==
    {[side |-> SearchSide,
      cell |-> [p \in Cells(SearchSide) |-> IF p \in ms THEN Other(c) ELSE c]] :
        ms \in MinoritySets, c \in {"fg", "bg"}}

SearchInit ==
    /\ pc = "search_start"
    /\ Idle
    /\ mipmap = <<>> /\ heap = <<>>
    /\ q = <<0, 0>>
    /\ last_op = "new" /\ popped = <<>> /\ last_cmp = <<>>
    /\ result = -1 /\ pops = 0

\* the pyramid is built once, then the queue is seeded for the query pixel
SearchBegin(image, qq) ==
    /\ pc = "search_start"
    /\ mipmap' = MipmapNew(image)
    /\ heap' = Seed(MipmapNew(image))
    /\ q' = qq
    /\ last_op' = "push"
    /\ pc' = "search"
    /\ UNCHANGED <<mainVars, popped, last_cmp, result, pops>>

\* one iteration of the loop, having popped `t` and left `rest`
Popped(r) ==
    /\ popped' = <<r.item>>
    /\ last_op' = "pop"
    /\ pops' = pops + 1
    /\ UNCHANGED <<mainVars, mipmap, last_cmp, q>>

\* a finest-level cell of the other colour: its distance is the answer
SearchFound ==
    /\ pc = "search" /\ heap # <<>>
    /\ \E r \in {pop(heap)} :
           /\ r.ok
           /\ r.item.level = 0
           /\ Cell(mipmap, 0, r.item.x, r.item.y) # QueryColour
           /\ result' = r.item.best_case_dst_sqr.i
           /\ heap' = r.data
           /\ pc' = "found"
           /\ Popped(r)

\* a finest-level cell of the query's colour: a dead end
SearchDeadEnd ==
    /\ pc = "search" /\ heap # <<>>
    /\ \E r \in {pop(heap)} :
           /\ r.ok
           /\ r.item.level = 0
           /\ Cell(mipmap, 0, r.item.x, r.item.y) = QueryColour
           /\ heap' = r.data
           /\ UNCHANGED <<pc, result>>
           /\ Popped(r)

\* a homogeneous region of the query's colour: pruned without subdividing
SearchPrune ==
    /\ pc = "search" /\ heap # <<>>
    /\ \E r \in {pop(heap)} :
           /\ r.ok
           /\ r.item.level > 0
           /\ Cell(mipmap, r.item.level, r.item.x, r.item.y) = QueryColour
           /\ heap' = r.data
           /\ UNCHANGED <<pc, result>>
           /\ Popped(r)

\* a mixed region, or a homogeneous one of the other colour: subdivided
SearchSubdivide ==
    /\ pc = "search" /\ heap # <<>>
    /\ \E r \in {pop(heap)} :
           /\ r.ok
           /\ r.item.level > 0
           /\ Cell(mipmap, r.item.level, r.item.x, r.item.y) # QueryColour
           /\ \E ch \in {Children(q, r.item)} :
              \E c \in {PushAll([ok |-> TRUE, data |-> r.data], ch)} :
                  /\ c.ok
                  /\ heap' = c.data
           /\ UNCHANGED <<pc, result>>
           /\ Popped(r)

\* the queue is empty: no boundary found
SearchExhausted ==
    /\ pc = "search" /\ heap = <<>>
    /\ pc' = "exhausted"
    /\ UNCHANGED <<mainVars, heapVars, searchVars, mipmap, heap>>

\* one iteration of the search loop
SearchStep ==
    \/ SearchFound
    \/ SearchDeadEnd
    \/ SearchPrune
    \/ SearchSubdivide
    \/ SearchExhausted

SearchNext ==
    \/ \E image \in SearchImages, qq \in Cells(SearchSide) : SearchBegin(image, qq)
    \/ SearchStep

\* the loop is sequential code: an enabled iteration is eventually run
SpecSearch == SearchInit /\ [][SearchNext]_vars /\ WF_vars(SearchStep)

(***************************************************************************)
(* main(): from the command line to the distance field.                    *)
(***************************************************************************)
MaxDim == 3      \* loaded images that are enumerated have sides 1..MaxDim
MaxField == 2    \* most values of a distance field
MaxDst == 1      \* distances -MaxDst..MaxDst, in whole units
MaxSat == 2      \* --maxdst values up to MaxSat

White == 255

KnownTypes == {"png", "png16", "u16", "f32", "f64"}
TypeOptions == {<<>>} \cup {<<t>> : t \in KnownTypes \cup {"bmp", "PNG"}}

ImageBases == {0, 120, 250}
SmallImages ==
    {[w |-> U32(w), h |-> U32(h), opaque |-> FALSE,
      px |-> [p \in Grid(w, h) |-> (b + p[1] + w * p[2]) % 256]] :
        w \in 1..MaxDim, h \in 1..MaxDim, b \in ImageBases}
\* 2^16 + 1, 2^31 + 1 and 2^32 - 1
LargeSides ==
    {[hi |-> 1, lo |-> 1], [hi |-> Half \div 2, lo |-> 1],
     [hi |-> Half - 1, lo |-> Half - 1]}
LargeImages ==
    {[w |-> s, h |-> U32(1), opaque |-> TRUE, px |-> <<>>] : s \in LargeSides}
    \cup {[w |-> U32(1), h |-> s, opaque |-> TRUE, px |-> <<>>] : s \in LargeSides}
LoadableImages == SmallImages \cup LargeImages

MainInit ==
    /\ pc = "args"
    /\ debug_build \in BOOLEAN
    /\ output_type = <<>> /\ outcome = "running"
    /\ loaded = NoImage /\ img = NoImage
    /\ input_size = U32(0) /\ sdf = <<>> /\ sat_dst = Fin(0) /\ out_file = <<>>
    /\ mipmap = <<>>
    /\ heap = <<>> /\ last_op = "new" /\ popped = <<>> /\ last_cmp = <<>>
    /\ q = <<0, 0>> /\ result = -1 /\ pops = 0

Stop(how) == outcome' = how /\ pc' = pc

\* lines 31-57: the command line.  no_args: args.len() == 1; parse_ok: the
\* result of opts.parse; help: -h is present; nfree: the free arguments;
\* ty: the --type option as given.
ParseArgs(no_args, parse_ok, help, nfree, ty) ==
    /\ pc = "args" /\ outcome = "running"
    /\ no_args => (nfree = 0 /\ ~help /\ parse_ok)
    /\ (no_args \/ ~parse_ok) => ty = <<>>
    /\ output_type' = ty
    /\ IF no_args THEN Stop("usage")
       ELSE IF ~parse_ok THEN Stop("panic_parse")
       ELSE IF help \/ nfree # 2 THEN Stop("usage")
       ELSE outcome' = outcome /\ pc' = "load"
    /\ UNCHANGED <<debug_build, loaded, img, input_size, sdf, sat_dst, out_file,
                   mipmap, heap, heapVars, searchVars>>

\* lines 62-64: image::open(..).expect(..).to_luma8()
LoadImage(ok, image) ==
    /\ pc = "load" /\ outcome = "running"
    /\ IF ok
       THEN /\ img' = image /\ loaded' = image
            /\ outcome' = outcome /\ pc' = "pad"
       ELSE /\ UNCHANGED <<img, loaded>>
            /\ Stop("panic_load")
    /\ UNCHANGED <<debug_build, output_type, input_size, sdf, sat_dst, out_file,
                   mipmap, heap, heapVars, searchVars>>

\* img.get_pixel(x, y); the pixels of a large image are not enumerated and
\* are all black
get_pixel(im, x, y) == IF im.opaque THEN 0 ELSE im.px[<<ToInt(x), ToInt(y)>>]

\* lines 80-91: the pixel of the canvas at (x, y)
fun(im, offset_x, offset_y, x, y) ==
    LET old_x == checked_sub(U32(x), offset_x)
        old_y == checked_sub(U32(y), offset_y)
    IN  IF old_x # <<>> /\ old_y # <<>>
           /\ ULess(old_x[1], im.w) /\ ULess(old_y[1], im.h)
        THEN get_pixel(im, old_x[1], old_y[1])
        ELSE White

\* image::ImageBuffer::from_fn(size, size, fun)
from_fn(im, size, offset_x, offset_y) ==
    IF IsSmall(size) /\ size.lo <= 4 * MaxDim
    THEN [w |-> size, h |-> size, opaque |-> FALSE,
          px |-> [p \in Grid(size.lo, size.lo) |->
                    fun(im, offset_x, offset_y, p[1], p[2])]]
    ELSE [w |-> size, h |-> size, opaque |-> TRUE, px |-> <<>>]

\* lines 71-74: the side of the canvas
canvas_size(w, h, checked) ==
    LET max_size == max(w, h)
    IN  IF count_ones(max_size) > 1
        THEN shl_one(U32Bits - leading_zeros(max_size), checked)
        ELSE [ok |-> TRUE, v |-> max_size]

\* lines 65-94: [how, img], how = "running" when no arithmetic panicked
padded(im, checked) ==
    IF im.w # im.h \/ count_ones(im.w) > 1
    THEN LET size == canvas_size(im.w, im.h, checked)
             dx == sub(size.v, im.w, checked)
             dy == sub(size.v, im.h, checked)
         IN  IF ~size.ok THEN [how |-> "panic_shl_overflow", img |-> im]
             ELSE IF ~dx.ok \/ ~dy.ok THEN [how |-> "panic_sub_overflow", img |-> im]
             ELSE [how |-> "running",
                   img |-> from_fn(im, size.v, div2(dx.v), div2(dy.v))]
    ELSE [how |-> "running", img |-> im]

\* lines 65-95
Pad ==
    /\ pc = "pad" /\ outcome = "running"
    /\ LET r == padded(img, debug_build)
       IN  IF r.how = "running"
           THEN /\ img' = r.img
                /\ input_size' = r.img.w
                /\ outcome' = outcome /\ pc' = "mipmap"
           ELSE /\ UNCHANGED <<img, input_size>>
                /\ Stop(r.how)
    /\ UNCHANGED <<debug_build, output_type, loaded, sdf, sat_dst, out_file,
                   mipmap, heap, heapVars, searchVars>>

\* sdfgen::functions::bw_to_bits: the midpoint rule
bw_to_bits(v) == IF v >= 128 THEN "fg" ELSE "bg"

IsPow2Square(im) == im.w = im.h /\ count_ones(im.w) = 1

\* lines 100-107: the image is made binary and moved into Mipmap::new
BuildMipmap ==
    /\ pc = "mipmap" /\ outcome = "running"
    /\ IF ~IsPow2Square(img)
       THEN /\ Stop("panic_mipmap")
            /\ UNCHANGED mipmap
       ELSE /\ mipmap' = IF img.opaque THEN <<>>
                         ELSE MipmapNew([side |-> img.w.lo,
                                         cell |-> [p \in DOMAIN img.px |->
                                                     bw_to_bits(img.px[p])]])
            /\ outcome' = outcome /\ pc' = "save_mipmaps"
    /\ img' = NoImage /\ loaded' = NoImage
    /\ UNCHANGED <<debug_build, output_type, input_size, sdf, sat_dst, out_file,
                   heap, heapVars, searchVars>>

\* lines 112-128: --save-mipmaps; saved: every save(..) returned Ok
SaveMipmaps(present, saved) ==
    /\ pc = "save_mipmaps" /\ outcome = "running"
    /\ IF present /\ ~saved THEN Stop("panic_save")
       ELSE outcome' = outcome /\ pc' = "options"
    /\ UNCHANGED <<debug_build, output_type, loaded, img, input_size, sdf,
                   sat_dst, out_file, mipmap, heap, heapVars, searchVars>>

\* --size and --maxdst as given: st is "absent", "bad" (not a number) or
\* "ok" with the parsed value v
SizeOptions == {[st |-> t, v |-> 1] : t \in {"absent", "bad", "ok"}}
SatValues == {Fin(n) : n \in -1..MaxSat} \cup {PosInf, NaN}
MaxdstOptions ==
    {[st |-> t, v |-> Fin(0)] : t \in {"absent", "bad"}}
    \cup {[st |-> "ok", v |-> v] : v \in SatValues}

\* input_size / 4 as DstT, for sides below 2^31
default_sat_dst(size) == Fin(ToInt(size) \div 4)

\* lines 129-136
ParseSizes(size, maxdst) ==
    /\ pc = "options" /\ outcome = "running"
    /\ IF size.st = "bad" THEN Stop("panic_size") /\ UNCHANGED sat_dst
       ELSE IF maxdst.st = "bad" THEN Stop("panic_maxdst") /\ UNCHANGED sat_dst
       ELSE /\ sat_dst' = IF maxdst.st = "absent" THEN default_sat_dst(input_size)
                          ELSE maxdst.v
            /\ outcome' = outcome /\ pc' = "calculate_sdf"
    /\ UNCHANGED <<debug_build, output_type, loaded, img, input_size, sdf,
                   out_file, mipmap, heap, heapVars, searchVars>>

BigDst == 2 ^ 24 + 1
DstValues == {Fin(n) : n \in -MaxDst..MaxDst} \cup {Fin(BigDst), Fin(-BigDst)}
RECURSIVE FieldsOfLen(_)
FieldsOfLen(n) ==
    IF n = 0 THEN {<<>>}
    ELSE {Append(f, v) : f \in FieldsOfLen(n - 1), v \in DstValues}
Fields == UNION {FieldsOfLen(n) : n \in 0..MaxField}

\* lines 143-144: calculate_sdf(mipmap_arc, sdf_size) consumes the pyramid
\* and returns the field; here any field of finite distances
CalculateSdf(field) ==
    /\ pc = "calculate_sdf" /\ outcome = "running"
    /\ sdf' = field
    /\ mipmap' = <<>>
    /\ pc' = "export"
    /\ UNCHANGED <<debug_build, output_type, outcome, loaded, img, input_size,
                   sat_dst, out_file, heap, heapVars, searchVars>>

(***************************************************************************)
(* main(): the export of the distance field (lines 148-259).               *)
(***************************************************************************)
I32Max == 2147483647
Scale16 == 32767
Scale8 == 127

\* the numerator of a finite value over its denominator d
Num(a) == a.i * a.d + a.n

\* a / b on f64
FDiv(a, b) ==
    IF a.k = "nan" \/ b.k = "nan" THEN NaN
    ELSE IF a.k = "inf" THEN (IF b.k = "inf" THEN NaN ELSE Inf(a.i * Sign(b.i)))
    ELSE IF b.k = "inf" THEN Fin(0)
    ELSE IF Num(b) = 0 THEN (IF Num(a) = 0 THEN NaN ELSE Inf(Sign(a.i)))
    ELSE Mixed(0, Num(a) * b.d * Sign(Num(b)), a.d * Abs(Num(b)))

\* a * c on f64, c a whole number other than 0.  A product of magnitude
\* 2^31 or more is "huge"; below that it is exact.
FMulInt(a, c) ==
    IF a.k # "fin" THEN [a EXCEPT !.i = a.i * Sign(c)]
    ELSE CASE Abs(a.i) > (I32Max \div Abs(c)) + 1 -> Huge(Sign(a.i) * Sign(c))
           [] Abs(a.i) < (I32Max \div Abs(c)) - 1 -> Mixed(a.i * c, a.n * c, a.d)

FLt(a, b) == partial_cmp(a, b) = "Less"
FLe(a, b) == partial_cmp(a, b) \in {"Less", "Equal"}

\* `as i32` on f64: truncates toward zero, saturates, and maps NaN to 0
as_i32(a) ==
    IF a.k = "nan" THEN 0
    ELSE IF a.k # "fin" THEN (IF a.i > 0 THEN I32Max ELSE -I32Max - 1)
    ELSE IF a.i < 0 /\ a.n # 0 THEN a.i + 1 ELSE a.i

\* x + c on i32, c > 0: [ok, v], ok = FALSE when the checked sum overflows
add_i32(x, c, checked) ==
    IF x > I32Max - c
    THEN [ok |-> ~checked, v |-> ((x - I32Max) + c - I32Max) - 2]
    ELSE [ok |-> TRUE, v |-> x + c]

as_u16(x) == ((x % Half) + Half) % Half
as_u8(x) == ((x % 256) + 256) % 256

\* the first statement of the loop body, line 200
scaled(px, sat, scale) == FMulInt(FDiv(px, sat), scale)

\* a loop body that stores the scaled distance without clamping it
clamped_missing(px, sat, scale) == scaled(px, sat, scale)

\* lines 200-205: a NaN passes both comparisons unchanged
clamped(px, sat, scale) ==
    LET dst == scaled(px, sat, scale)
    IN  IF FLt(dst, Fin(-scale)) THEN Fin(-scale)
        ELSE IF FLt(Fin(scale), dst) THEN Fin(scale)
        ELSE dst

\* a loop body that offsets by 32768, the midpoint of the full u16 range
quantize_u16_offset_32768(px, sat, checked) ==
    LET dst == clamped(px, sat, Scale16)
        sum == add_i32(as_i32(dst), Scale16 + 1, checked)
    IN  [ok |-> /\ (checked => (FLe(dst, Fin(Scale16)) /\ FLe(Fin(-Scale16), dst)))
                /\ sum.ok,
         v |-> as_u16(sum.v)]

\* lines 199-208 for one value: [ok, v]; ok = FALSE when a debug assertion
\* or a checked addition fails
quantize_u16(px, sat, checked) ==
    LET dst == clamped(px, sat, Scale16)
        sum == add_i32(as_i32(dst), Scale16, checked)
    IN  [ok |-> /\ (checked => (FLe(dst, Fin(Scale16)) /\ FLe(Fin(-Scale16), dst)))
                /\ sum.ok,
         v |-> as_u16(sum.v)]

\* write_u16::<LittleEndian>
le_bytes_u16(v) == <<v % 256, v \div 256>>

RECURSIVE Flatten(_)
Flatten(ss) == IF ss = <<>> THEN <<>> ELSE Head(ss) \o Flatten(Tail(ss))

\* lines 194-210: [ok, data]
buf_u16(field, sat, checked) ==
    LET qs == [i \in 1..Len(field) |-> quantize_u16(field[i], sat, checked)]
    IN  [ok |-> \A i \in 1..Len(field) : qs[i].ok,
         data |-> Flatten([i \in 1..Len(field) |-> le_bytes_u16(qs[i].v)])]

\* an f64 export that clamps to the saturation distance
buf_f64_clamped(field, sat) ==
    [i \in 1..Len(field) |->
        IF FLt(sat, field[i]) THEN sat
        ELSE field[i]]

\* lines 229-232: the values are written as they are (the value stands for
\* its eight little-endian bytes)
buf_f64(field, sat) == [i \in 1..Len(field) |-> field[i]]

\* `as f32` on an f64 that is a whole number: round to a 24-bit
\* significand, ties to even
as_f32(a) ==
    IF a.k # "fin" \/ a.n # 0 \/ BitLen(Abs(a.i)) <= 24 THEN a
    ELSE LET ulp == 2 ^ (BitLen(Abs(a.i)) - 24)
             m == Abs(a.i) \div ulp
             r == Abs(a.i) % ulp
             up == 2 * r > ulp \/ (2 * r = ulp /\ m % 2 = 1)
         IN  Fin(Sign(a.i) * ulp * (IF up THEN m + 1 ELSE m))

\* lines 243-246
buf_f32(field, sat) == [i \in 1..Len(field) |-> as_f32(field[i])]

\* sdfgen::sdf_algorithm::sdf_to_grayscale_image: the clamped distance on
\* 0..254, symmetric around 127
sdf_to_grayscale_image(field, sat) ==
    [i \in 1..Len(field) |->
        LET dst == FMulInt(FDiv(field[i], sat), Scale8)
            kept == IF FLt(dst, Fin(-Scale8)) THEN Fin(-Scale8)
                    ELSE IF FLt(Fin(Scale8), dst) THEN Fin(Scale8)
                    ELSE dst
        IN  as_u8(as_i32(kept) + Scale8)]

\* an output type match that falls through to the default type
match_arm_default_png(ty) ==
    IF ty = <<>> THEN "png" ELSE IF ty[1] \in KnownTypes THEN ty[1] ELSE "png"

\* lines 148-152 and the arms of the match: "_" is the default arm
match_arm(ty) ==
    IF ty = <<>> THEN "png" ELSE IF ty[1] \in KnownTypes THEN ty[1] ELSE "_"

\* the buffer an arm builds before it creates the file: [ok, data]
arm_buffer(arm, field, sat, checked) ==
    IF arm \in {"u16", "png16"} THEN buf_u16(field, sat, checked)
    ELSE IF arm = "f64" THEN [ok |-> TRUE, data |-> buf_f64(field, sat)]
    ELSE IF arm = "f32" THEN [ok |-> TRUE, data |-> buf_f32(field, sat)]
    ELSE [ok |-> TRUE, data |-> sdf_to_grayscale_image(field, sat)]

\* lines 148-259.  created: File::create returned Ok; written: the write
\* (write_all or the encoder's write_image) returned Ok.
Export(created, written) ==
    /\ pc = "export" /\ outcome = "running"
    /\ LET arm == match_arm(output_type)
           buf == arm_buffer(arm, sdf, sat_dst, debug_build)
       IN  IF arm = "_"
           THEN /\ outcome' = "panic_unknown_format"
                /\ UNCHANGED out_file
           ELSE IF ~buf.ok
           THEN /\ outcome' = "panic_debug_assert"
                /\ UNCHANGED out_file
           ELSE IF ~created
           THEN /\ outcome' = "panic_create"
                /\ UNCHANGED out_file
           ELSE IF ~written
           THEN /\ outcome' = "panic_write"
                /\ out_file' = <<[arm |-> arm, complete |-> FALSE, data |-> <<>>]>>
           ELSE /\ outcome' = "ok"
                /\ out_file' = <<[arm |-> arm, complete |-> TRUE, data |-> buf.data]>>
    /\ UNCHANGED <<pc, debug_build, output_type, loaded, img, input_size, sdf,
                   sat_dst, mipmap, heap, heapVars, searchVars>>

MainNext ==
    \/ \E no_args, parse_ok, help \in BOOLEAN, nfree \in 1..3, ty \in TypeOptions :
          ParseArgs(no_args, parse_ok, help, IF no_args THEN 0 ELSE nfree, ty)
    \/ \E ok \in BOOLEAN, image \in LoadableImages : LoadImage(ok, image)
    \/ Pad
    \/ BuildMipmap
    \/ \E present, saved \in BOOLEAN : SaveMipmaps(present, saved)
    \/ \E size \in SizeOptions, maxdst \in MaxdstOptions : ParseSizes(size, maxdst)
    \/ \E field \in Fields : CalculateSdf(field)
    \/ \E created, written \in BOOLEAN : Export(created, written)

SpecMain == MainInit /\ [][MainNext]_vars

(***************************************************************************)
(* Reference values for the search.                                        *)
(***************************************************************************)
DistSqr(a, b) == (a[1] - b[1]) * (a[1] - b[1]) + (a[2] - b[2]) * (a[2] - b[2])

Differing == {p \in Cells(mipmap[1].side) : mipmap[1].cell[p] # QueryColour}

\* brute force: is d the least squared distance to a differing pixel
IsBruteMin(d) ==
    /\ \E p \in Differing : DistSqr(p, q) = d
    /\ \A p \in Differing : DistSqr(p, q) >= d

\* number of cells of the whole pyramid
RECURSIVE TotalCells(_)
TotalCells(level) ==
    IF level = 0 THEN 1 ELSE Pow2(2 * level) + TotalCells(level - 1)

(***************************************************************************)
(* Claims about SdfTask and the heap.                                      *)
(***************************************************************************)
AllPositions == (0..1) \X (0..1) \X (0..1)
Retag(t, m) == SdfTask(m[1], m[2], m[3], t.best_case_dst_sqr)
HeapAllFinite ==
    /\ \A i \in 1..Len(heap) : IsFinite(heap[i].best_case_dst_sqr)
    /\ \A i \in 1..Len(popped) : IsFinite(popped[i].best_case_dst_sqr)

\* C2: on a heap of tasks with finite best_case_dst_sqr, a pop returns a
\* task whose best_case_dst_sqr is no larger than that of any task left in
\* the heap, and the order between two tasks is the same whatever their x, y
\* and level are.
C2_PopReturnsSmallest ==
    (pc = "heap" /\ HeapAllFinite) =>
        /\ (last_op = "pop" /\ popped # <<>>) =>
              \A i \in 1..Len(heap) :
                  ~FLess(heap[i].best_case_dst_sqr, popped[1].best_case_dst_sqr)
        /\ \A i, j \in 1..Len(heap) : \A m1, m2 \in AllPositions :
              cmp(Retag(heap[i], m1), Retag(heap[j], m2)) = cmp(heap[i], heap[j])

C2_Witness ==
    /\ pc = "heap" /\ HeapAllFinite
    /\ last_op = "pop" /\ popped # <<>> /\ Len(heap) = 2
    /\ \A i \in 1..2 :
          /\ FLess(popped[1].best_case_dst_sqr, heap[i].best_case_dst_sqr)
          /\ heap[i].x # popped[1].x
    /\ FLess(heap[1].best_case_dst_sqr, heap[2].best_case_dst_sqr)

\* C3: a comparison of two tasks panics whenever the best_case_dst_sqr of
\* either is NaN or infinite, so the heap never orders (holds together with
\* another task) a task whose best_case_dst_sqr is NaN or infinite.
C3_NonFiniteFailsFast ==
    /\ last_cmp # <<>> =>
          ((~IsFinite(last_cmp[1].best_case_dst_sqr)
            \/ ~IsFinite(last_cmp[2].best_case_dst_sqr))
              => last_cmp[3] = "panic")
    /\ Len(heap) >= 2 =>
          \A i \in 1..Len(heap) : IsFinite(heap[i].best_case_dst_sqr)

(***************************************************************************)
(* Claims about the search.                                                *)
(***************************************************************************)
\* C1: when the search stops at a finest-level cell of the other colour, the
\* squared distance it reports is the least squared Euclidean distance from
\* the query pixel to any pixel of the other colour (so the distances agree).
C1_SearchIsExact ==
    pc = "found" => IsBruteMin(result)

C1_Witness ==
    /\ pc = "found" /\ IsBruteMin(result) /\ result >= 4
    /\ pops >= 2 * MaxLevel + 1

\* C4: every search stops, either at a finest-level cell of the other colour
\* or with the queue empty; it pops no more tasks than the pyramid has
\* cells; and the queue empties only when the image has one colour.
C4_SearchTerminates ==
    /\ (pc = "search") ~> (pc \in {"found", "exhausted"})
    /\ [](pc # "search_start" => pops <= TotalCells(get_max_level(mipmap)))
    /\ [](pc = "exhausted" => Differing = {})

C4_Witness ==
    /\ pc = "exhausted" /\ Differing = {} /\ pops = 1 /\ heap = <<>>

(***************************************************************************)
(* Claims about the padding step.                                          *)
(***************************************************************************)
Padded == pc = "mipmap" /\ ~IsPow2Square(loaded)
offset_x == div2(sub(img.w, loaded.w, FALSE).v)
offset_y == div2(sub(img.h, loaded.h, FALSE).v)

\* C5: for every loaded image of width w >= 1 and height h >= 1, the image
\* handed to Mipmap::new is square with a power-of-two side, the side is the
\* smallest power of two that is at least max(w, h), and a loaded image that
\* is already a power-of-two square is handed over with the same dimensions.
C5_PaddedToSmallestPow2 ==
    pc = "mipmap" =>
        /\ IsPow2Square(img)
        /\ ~ULess(img.w, max(loaded.w, loaded.h))
        /\ \/ img.w = max(loaded.w, loaded.h)
           \/ ULess(div2(img.w), max(loaded.w, loaded.h))
        /\ IsPow2Square(loaded) => (img.w = loaded.w /\ img.h = loaded.h)

\* C10: after padding, every pixel (i, j) of the loaded image is found
\* unchanged at (i + offset_x, j + offset_y) of the canvas, and every other
\* pixel of the canvas is white.  For an image whose pixels are not
\* enumerated the pixel (0, 0) stands for all of them.
C10_PixelsKeepTheirPlace ==
    Padded =>
        /\ ULess(offset_x, img.w) /\ ULess(offset_y, img.h)
        /\ ~img.opaque =>
              /\ img.px[<<ToInt(offset_x), ToInt(offset_y)>>]
                    = get_pixel(loaded, U32(0), U32(0))
              /\ ~loaded.opaque =>
                    \A c \in DOMAIN img.px :
                        LET i == c[1] - ToInt(offset_x)
                            j == c[2] - ToInt(offset_y)
                        IN  img.px[c] =
                                IF <<i, j>> \in DOMAIN loaded.px
                                THEN loaded.px[<<i, j>>]
                                ELSE White

(***************************************************************************)
(* Claims about the export.                                                *)
(***************************************************************************)
Written == out_file # <<>> /\ out_file[1].complete
Written16 == Written /\ out_file[1].arm \in {"u16", "png16"}
WrittenFloat == Written /\ out_file[1].arm \in {"f32", "f64"}
SatPositive == FLt(Fin(0), sat_dst)
Neg(a) == [a EXCEPT !.i = -a.i]
\* the i-th value of a 16-bit file, read back little-endian
Stored(i) == out_file[1].data[2 * i - 1] + 256 * out_file[1].data[2 * i]

\* C6: in a 16-bit file written with a saturation distance D > 0, a distance
\* equal to D is stored as 65534, a distance equal to -D as 0, and a
\* distance of 0 as 32767.
C6_SaturationRoundTrip ==
    (Written16 /\ SatPositive) =>
        \A i \in 1..Len(sdf) :
            /\ sdf[i] = sat_dst => Stored(i) = 65534
            /\ sdf[i] = Neg(sat_dst) => Stored(i) = 0
            /\ sdf[i] = Fin(0) => Stored(i) = 32767

C6_Witness ==
    /\ Written16 /\ SatPositive
    /\ sdf = <<sat_dst, Neg(sat_dst)>>
    /\ Stored(1) = 65534 /\ Stored(2) = 0

\* C7: with a 16-bit type and a saturation distance D > 0 neither debug
\* assertion fails, whatever the distances are; in the file the sum that is
\* cast to u16 is the stored value itself (no wrap), the stored value is in
\* 0..65534, a distance that is no smaller is stored as a value that is no
\* smaller, and a distance of D or more (of -D or less) is stored as D
\* (as -D) is.
C7_ClampedBeforeStorage ==
    /\ (match_arm(output_type) \in {"u16", "png16"} /\ pc = "export" /\ SatPositive)
          => outcome # "panic_debug_assert"
    /\ (Written16 /\ SatPositive) =>
          /\ Len(out_file[1].data) = 2 * Len(sdf)
          /\ \A i \in 1..Len(sdf) :
                /\ Stored(i) \in 0..65534
                /\ as_i32(clamped(sdf[i], sat_dst, Scale16)) + Scale16 = Stored(i)
                /\ ~FLess(sdf[i], sat_dst) =>
                      Stored(i) = quantize_u16(sat_dst, sat_dst, debug_build).v
                /\ ~FLess(Neg(sat_dst), sdf[i]) =>
                      Stored(i) = quantize_u16(Neg(sat_dst), sat_dst, debug_build).v
          /\ \A i, j \in 1..Len(sdf) :
                ~FLess(sdf[j], sdf[i]) => Stored(i) <= Stored(j)

C7_Witness ==
    /\ Written16 /\ sat_dst = Fin(MaxSat) /\ debug_build
    /\ sdf = <<Fin(-BigDst), Fin(BigDst)>>
    /\ Stored(1) = 0 /\ Stored(2) = 65534

\* C8: an f64 or f32 file holds one value per value of the distance field,
\* in the field's order, each the distance itself (converted to f32 for
\* f32) and never clamped; the same field exported with any other
\* saturation distance gives the same data.
C8_FloatsAreRaw ==
    WrittenFloat =>
        /\ Len(out_file[1].data) = Len(sdf)
        /\ \A i \in 1..Len(sdf) :
              out_file[1].data[i] =
                  IF out_file[1].arm = "f64" THEN sdf[i] ELSE as_f32(sdf[i])
        /\ \A other \in SatValues :
              arm_buffer(out_file[1].arm, sdf, other, debug_build).data
                  = out_file[1].data

C8_Witness ==
    /\ WrittenFloat /\ out_file[1].arm = "f64" /\ sat_dst = Fin(1)
    /\ sdf = <<Fin(BigDst), Fin(-MaxDst)>>
    /\ out_file[1].data = sdf

UnknownType == output_type # <<>> /\ output_type[1] \notin KnownTypes

\* C9: a run given a --type other than png, png16, u16, f32 and f64 ends
\* with the panic 'Unknown output format' and without an output file.
C9_UnknownTypeAlwaysPanics ==
    (UnknownType /\ outcome # "running") =>
        (outcome = "panic_unknown_format" /\ out_file = <<>>)

\* C9, amended: a run given such a --type never creates the output file,
\* and if it gets as far as the export it ends with the panic 'Unknown
\* output format'.
C9_UnknownTypePanicsAtExport ==
    UnknownType =>
        /\ out_file = <<>>
        /\ (pc = "export" /\ outcome # "running") => outcome = "panic_unknown_format"

C9_Witness ==
    /\ UnknownType /\ pc = "export" /\ outcome = "panic_unknown_format"
    /\ out_file = <<>> /\ sdf # <<>>

====
